---------------------------- MODULE Spec2Model ----------------------------
(***************************************************************************)
(* A model of packages/model: the FieldMask tree algebra (field-mask.js)   *)
(* and the Model engine (model.js): field registry, value storage,         *)
(* defaults, polymorphic construction, commit / rollback change tracking.  *)
(***************************************************************************)
EXTENDS Integers, Sequences, FiniteSets, TLC

VARIABLES
    fa, fb,      \* FieldMask: the backing structures of the two masks of a call
    mres,        \* FieldMask: the outcome of the call
    ownFields,   \* per class: its own `_fields` property (declaration order)
    regLog,      \* the successful setField calls so far
    registry,    \* per class: its own `$registry` property
    root,        \* the Model instance under test
    origin,      \* how root was constructed
    base,        \* root's field values at construction / last commit / rollback
    last,        \* the outcome of the last Model operation
    ops          \* number of operations applied to root

maskVars == <<fa, fb, mres>>
fieldVars == <<ownFields, regLog>>
modelVars == <<registry, root, origin, base, last, ops>>
vars == <<fa, fb, mres, ownFields, regLog, registry, root, origin, base, last, ops>>

(***************************************************************************)
(* FieldMask.  The backing structure `_fields` (a mapping name -> true |   *)
(* nested mapping) is a function from the paths of its entries to the kind *)
(* of the entry: "T" for the literal true, "O" for a nested object.        *)
(* "U" stands for JavaScript's undefined (no entry).                       *)
(***************************************************************************)
Names == {"a", "b"}

\* The largest number of entries (at all depths) of a mask drawn as input.
MaxEntries == 3

EmptyMask == [p \in {} |-> "T"]

\* rootFields[name]
Entry(fields, name) ==
    IF <<name>> \in DOMAIN fields THEN fields[<<name>>] ELSE "U"

\* The nested structure below rootFields[name]; Object.entries of `true` and
\* of {} are both empty.
Sub(fields, name) ==
    LET below == {q \in DOMAIN fields : Len(q) > 1 /\ q[1] = name}
    IN  [p \in {Tail(q) : q \in below} |-> fields[<<name>> \o p]]

\* The names of Object.entries(fields)
Keys(fields) == {q[1] : q \in DOMAIN fields}

\* Every well-formed backing structure with at most k entries.
RECURSIVE MasksUpTo(_)
MasksUpTo(k) ==
    IF k = 0 THEN {EmptyMask}
    ELSE LET prev == MasksUpTo(k - 1)
             Cand(m) == {<<n>> : n \in Names} \cup
                        {q \o <<n>> : q \in {r \in DOMAIN m : m[r] = "O"}, n \in Names}
             Ext(m, p, v) == [q \in DOMAIN m \cup {p} |-> IF q = p THEN v ELSE m[q]]
         IN  prev \cup UNION {{Ext(m, p, v) : p \in Cand(m) \ DOMAIN m, v \in {"T", "O"}}
                              : m \in prev}

Masks == MasksUpTo(MaxEntries)

\* $includes: _includes(rootFields, rootOtherFields)
RECURSIVE _includes(_, _)
_includes(rootFields, rootOtherFields) ==
    \A name \in Keys(rootOtherFields) :
        /\ Entry(rootFields, name) # "U"
        /\ (Entry(rootFields, name) = "O"
              => _includes(Sub(rootFields, name), Sub(rootOtherFields, name)))

\* The two throw conditions of _merge for one name.
mergeConflictWrong(fields, otherFields) ==
    otherFields = "T" /\ fields = "O"

mergeConflict(fields, otherFields) ==
    \/ otherFields = "T" /\ fields = "O"
    \/ otherFields = "O" /\ fields = "T"

\* $add: _merge(rootFields, rootOtherFields).  err: the call threw
\* "Cannot merge two incompatible fieldMasks"; m: mergedFields.
RECURSIVE _merge(_, _)
_merge(rootFields, rootOtherFields) ==
    LET names == Keys(rootOtherFields)
        nested == {n \in names : Entry(rootOtherFields, n) = "O"}
        sub(n) == _merge(Sub(rootFields, n), Sub(rootOtherFields, n))
        dom == DOMAIN rootFields \cup {<<n>> : n \in names}
                 \cup UNION {{<<n>> \o p : p \in DOMAIN sub(n).m} : n \in nested}
    IN  IF \E n \in names :
              \/ mergeConflict(Entry(rootFields, n), Entry(rootOtherFields, n))
              \/ (n \in nested /\ sub(n).err)
        THEN [err |-> TRUE, m |-> EmptyMask]
        ELSE [err |-> FALSE,
              m |-> [q \in dom |->
                       IF Len(q) = 1
                       THEN IF q \in DOMAIN rootFields THEN rootFields[q]
                            ELSE rootOtherFields[q]
                       ELSE IF q[1] \in nested THEN sub(q[1]).m[Tail(q)]
                            ELSE rootFields[q]]]

(***************************************************************************)
(* Model: classes.  The classes of the test schema and their prototype     *)
(* chain; "none" ends the chain.                                           *)
(***************************************************************************)
Classes == {"Model", "P", "Q", "S", "T"}

Parent(c) ==
    CASE c = "P" -> "Model"
      [] c = "Q" -> "P"
      [] c = "S" -> "Model"
      [] c = "T" -> "Model"
      [] OTHER -> "none"

\* The class and the classes it extends.
RECURSIVE Ancestors(_)
Ancestors(c) == IF c = "none" THEN {} ELSE {c} \cup Ancestors(Parent(c))

(***************************************************************************)
(* Field registry: the static `_fields` of each class, copy-on-write.      *)
(* of[c] = [own |-> whether c has its own `_fields`, fs |-> its entries in *)
(* insertion order]; an entry records the class whose setField made it.    *)
(***************************************************************************)
FieldNames == {"x", "y"}

NoFields == [c \in Classes |-> [own |-> FALSE, fs |-> <<>>]]

\* this._fields, resolved along the prototype chain ({} when undefined)
RECURSIVE inheritedFields(_, _)
inheritedFields(of, c) ==
    IF c = "none" THEN <<>>
    ELSE IF of[c].own THEN of[c].fs
    ELSE inheritedFields(of, Parent(c))

\* static getField(name): the entry, or undefined
getField(of, c, name) ==
    LET fs == inheritedFields(of, c)
    IN  {fs[i] : i \in {j \in DOMAIN fs : fs[j].name = name}}

\* static setField(name, type, options).  err: "Field already exists".
setField(of, c, name) ==
    LET copied == IF of[c].own THEN of
                  ELSE [of EXCEPT ![c] = [own |-> TRUE, fs |-> inheritedFields(of, c)]]
        fs == copied[c].fs
    IN  IF \E i \in DOMAIN fs : fs[i].name = name
        THEN [err |-> TRUE, of |-> copied]
        ELSE [err |-> FALSE,
              of |-> [copied EXCEPT ![c].fs = Append(fs, [name |-> name, by |-> c])]]

(***************************************************************************)
(* Model: values.  Every value is a record tagged by k:                    *)
(*   "undef"  JavaScript's undefined                                       *)
(*   "val"    a number                   "bad"  a value no field accepts   *)
(*   "arr"    an array                                                     *)
(*   "raw"    a plain object; type is its _type ("none": no _type)         *)
(*   "model"  a Model instance: hasVals / hasSaved say whether             *)
(*            _fieldValues / _savedFieldValues are defined                 *)
(* Instances are held by value: the object graph under an instance is a    *)
(* tree, and an instance is reached only through the field holding it.     *)
(***************************************************************************)
Undef == [k |-> "undef"]
Num(v) == [k |-> "val", v |-> v]
Bad == [k |-> "bad"]
Arr(items) == [k |-> "arr", items |-> items]
Raw(type, props) == [k |-> "raw", type |-> type, props |-> props]

EmptyMap == [n \in {} |-> Undef]

MapPut(m, key, v) == [n \in DOMAIN m \cup {key} |-> IF n = key THEN v ELSE m[n]]

NewInstance(cls) ==
    [k |-> "model", cls |-> cls, hasVals |-> FALSE, vals |-> EmptyMap,
     hasSaved |-> FALSE, saved |-> EmptyMap]

\* A Field descriptor: type is "num" or the class of a Model-valued field,
\* many says the field holds an array of them.
FieldOf(name, type, many, serializedName, default) ==
    [name |-> name, type |-> type, many |-> many,
     serializedName |-> serializedName, default |-> default]

\* The registry `_fields` of each class once its fields are declared.
RECURSIVE Fields(_)
Fields(cls) ==
    CASE cls = "P" -> << FieldOf("x", "num", FALSE, "none", Undef),
                         FieldOf("n", "num", FALSE, "num", Num(0)),
                         FieldOf("f", "S", FALSE, "none", Undef),
                         FieldOf("g", "S", TRUE, "none", Undef) >>
      [] cls = "Q" -> Fields("P") \o << FieldOf("q", "num", FALSE, "none", Undef) >>
      [] cls = "S" -> << FieldOf("x", "num", FALSE, "none", Undef),
                         FieldOf("t", "T", FALSE, "none", Undef) >>
      [] cls = "T" -> << FieldOf("x", "num", FALSE, "none", Undef) >>
      [] OTHER -> << >>

\* Index in Fields(cls) of the field a key names, 0 for undefined.
fieldByName(cls, name) ==
    LET fs == Fields(cls)
        hit == {i \in DOMAIN fs : fs[i].name = name}
    IN  IF hit = {} THEN 0 ELSE CHOOSE i \in hit : \A j \in hit : i <= j

\* static getFieldBySerializedName(name): forEachField's first match
getFieldBySerializedName(cls, name) ==
    LET fs == Fields(cls)
        hit == {i \in DOMAIN fs :
                  IF fs[i].serializedName # "none" THEN fs[i].serializedName = name
                  ELSE fs[i].name = name}
    IN  IF hit = {} THEN 0 ELSE CHOOSE i \in hit : \A j \in hit : i <= j

\* isOfType(name), walking the constructor chain by name only
isOfTypeOwnOnly(inst, name) ==
    name = "Model" \/ inst.cls = name

isOfType(inst, name) ==
    name = "Model" \/ name \in Ancestors(inst.cls)

\* this.$registry, resolved along the prototype chain
RECURSIVE _getRegistry(_)
_getRegistry(cls) ==
    IF cls = "none" THEN [err |-> "RegistryMissing", names |-> {}]
    ELSE IF registry[cls].own THEN [err |-> "none", names |-> registry[cls].names]
    ELSE _getRegistry(Parent(cls))

\* static _getModel(name)
_getModel(cls, name) ==
    LET reg == _getRegistry(cls)
    IN  IF reg.err # "none" THEN [err |-> reg.err, model |-> "none"]
        ELSE IF name \notin reg.names THEN [err |-> "UnknownType", model |-> "none"]
        ELSE [err |-> "none", model |-> name]

_getFieldValue(inst, name) ==
    IF inst.hasVals /\ name \in DOMAIN inst.vals THEN inst.vals[name] ELSE Undef

_saveFieldValue(inst, name) ==
    [inst EXCEPT !.hasSaved = TRUE,
                 !.saved = MapPut(inst.saved, name, _getFieldValue(inst, name))]

Fail(err) == [err |-> err, obj |-> Undef]
Done(obj) == [err |-> "none", obj |-> obj]

RECURSIVE construct(_, _, _)
RECURSIVE populate(_, _, _, _)
RECURSIVE applyDefaultsFrom(_, _)

\* What Field.createValue returns for a Model-typed field, given the result
\* of constructing each of the value's items.
createdFrom(field, rs) ==
    LET bad == {i \in DOMAIN rs : rs[i].err # "none"}
    IN  IF bad # {} THEN Fail(rs[CHOOSE i \in bad : \A j \in bad : i <= j].err)
        ELSE IF field.many THEN Done(Arr([i \in DOMAIN rs |-> rs[i].obj]))
        ELSE Done(rs[1].obj)

\* Field.createValue(value, owner, {isDeserializing}): numbers are validated,
\* Model-typed values are constructed with the same isDeserializing.
createValue(field, value, isDeserializing) ==
    IF value = Undef THEN Done(Undef)
    ELSE IF field.type = "num"
    THEN IF value.k = "val" THEN Done(value) ELSE Fail("InvalidValue")
    ELSE IF field.many # (value.k = "arr") THEN Fail("InvalidValue")
    ELSE createdFrom(field,
            [i \in DOMAIN (IF field.many THEN value.items ELSE <<value>>) |->
               construct(field.type, IF field.many THEN value.items[i] ELSE value,
                         isDeserializing)])

\* Lines 194-198 of _setFieldValue: store what createValue returned, unless
\* it threw.
storeFieldValue(inst, field, cv) ==
    IF cv.err # "none" THEN [err |-> cv.err, obj |-> inst]
    ELSE Done([inst EXCEPT !.hasVals = TRUE,
                           !.vals = MapPut(inst.vals, field.name, cv.obj)])

\* _setFieldValue(field, value, {isDeserializing}); obj is the instance as
\* the call leaves it, also when createValue throws.
_setFieldValue(inst, field, value, isDeserializing) ==
    storeFieldValue(IF ~isDeserializing THEN _saveFieldValue(inst, field.name) ELSE inst,
                    field, createValue(field, value, isDeserializing))

\* The field an input key names: its index in Fields(cls), 0 for none
keyField(cls, name, isDeserializing) ==
    IF isDeserializing THEN getFieldBySerializedName(cls, name)
    ELSE fieldByName(cls, name)

\* One entry of the constructor's loop; unknown keys are ignored.
populateEntry(inst, name, value, isDeserializing) ==
    IF keyField(inst.cls, name, isDeserializing) = 0 THEN Done(inst)
    ELSE _setFieldValue(inst, Fields(inst.cls)[keyField(inst.cls, name, isDeserializing)],
                        value, isDeserializing)

populateRest(r, props, keys, isDeserializing) ==
    IF r.err # "none" THEN r ELSE populate(r.obj, props, keys, isDeserializing)

\* The constructor's loop over Object.entries(object)
populate(inst, props, keys, isDeserializing) ==
    IF keys = {} THEN Done(inst)
    ELSE populateRest(
            populateEntry(inst, CHOOSE n \in keys : TRUE,
                          props[CHOOSE n \in keys : TRUE], isDeserializing),
            props, keys \ {CHOOSE n \in keys : TRUE}, isDeserializing)

\* One field of _applyDefaults' loop
applyDefault(inst, field) ==
    IF field.default = Undef \/ _getFieldValue(inst, field.name) # Undef
    THEN Done(inst)
    ELSE _setFieldValue(inst, field, field.default, FALSE)

applyDefaultsRest(r, i) ==
    IF r.err # "none" THEN r ELSE applyDefaultsFrom(r.obj, i)

\* _applyDefaults(), from the i-th field on
applyDefaultsFrom(inst, i) ==
    IF i > Len(Fields(inst.cls)) THEN Done(inst)
    ELSE applyDefaultsRest(applyDefault(inst, Fields(inst.cls)[i]), i + 1)

_applyDefaults(inst) == applyDefaultsFrom(inst, 1)

\* Lines 16-18: the class the tag names, constructed from the rest
constructTagged(gm, props, isDeserializing) ==
    IF gm.err # "none" THEN Fail(gm.err)
    ELSE construct(gm.model, Raw("none", props), isDeserializing)

\* Lines 21-28: an instance is returned as it is if it is of the expected type
passThrough(cls, r) ==
    IF r.err # "none" THEN r
    ELSE IF ~isOfType(r.obj, cls) THEN Fail("TypeMismatch")
    ELSE r

\* Lines 42-44
defaultsUnless(r, isDeserializing) ==
    IF r.err # "none" \/ isDeserializing THEN r ELSE _applyDefaults(r.obj)

\* new cls(object, {isDeserializing})
construct(cls, object, isDeserializing) ==
    IF object # Undef /\ object.k \notin {"raw", "model"} THEN Fail("TypeMismatch")
    ELSE IF object.k = "model" THEN passThrough(cls, Done(object))
    ELSE IF object.k = "raw" /\ object.type # "none"
    THEN passThrough(cls, constructTagged(_getModel(cls, object.type), object.props,
                                          isDeserializing))
    ELSE defaultsUnless(
            IF object = Undef THEN Done(NewInstance(cls))
            ELSE populate(NewInstance(cls), object.props, DOMAIN object.props,
                          isDeserializing),
            isDeserializing)

\* static deserialize(object)
deserialize(cls, object) == construct(cls, object, TRUE)

\* Field.serializeValue(value, options): Model values serialize recursively.
RECURSIVE serialize(_)
serializeValue(field, value) ==
    IF value.k = "model" THEN serialize(value)
    ELSE IF value.k = "arr"
    THEN Arr([i \in DOMAIN value.items |->
                IF value.items[i].k = "model" THEN serialize(value.items[i])
                ELSE value.items[i]])
    ELSE value

\* serialize() with the default options (includeFields = true)
serialize(inst) ==
    LET fs == Fields(inst.cls)
        key(i) == IF fs[i].serializedName # "none" THEN fs[i].serializedName
                  ELSE fs[i].name
        out(i) == serializeValue(fs[i], _getFieldValue(inst, fs[i].name))
        kept == {i \in DOMAIN fs : out(i) # Undef}
        lastOf(kk) == CHOOSE i \in kept : key(i) = kk /\ \A j \in kept : key(j) = kk => j <= i
    IN  Raw(inst.cls, [kk \in {key(i) : i \in kept} |-> out(lastOf(kk))])

\* clone()
clone(inst) == deserialize(inst.cls, serialize(inst))

(***************************************************************************)
(* Model: change tracking.                                                 *)
(***************************************************************************)
\* The one or many values of a field value
Items(value) == IF value.k = "arr" THEN value.items ELSE <<value>>

\* value?.isOfType && value.isOfType('Model')
isModel(value) == value.k = "model"

Least(S) == IF S = {} THEN 0 ELSE CHOOSE i \in S : \A j \in S : i <= j

\* findFromOneOrMany(valueOrArray, predicate), given the predicate's result
\* ("undefined", "true", "false") on each item: it stops at the first item
\* whose result is defined and returns that result (at: the item, 0: none).
findFromOneOrMany(results) ==
    LET at == Least({i \in DOMAIN results : results[i] # "undefined"})
    IN  [at |-> at, result |-> IF at = 0 THEN "undefined" ELSE results[at]]

\* The places <<field index, item index>> of the Model values an instance holds
ModelPositions(inst) ==
    LET fs == Fields(inst.cls)
    IN  {pos \in UNION {{<<fi, ii>> : ii \in DOMAIN Items(_getFieldValue(inst, fs[fi].name))}
                        : fi \in DOMAIN fs}
           : isModel(Items(_getFieldValue(inst, fs[pos[1]].name))[pos[2]])}

SubAt(inst, pos) ==
    Items(_getFieldValue(inst, Fields(inst.cls)[pos[1]].name))[pos[2]]

PutAt(inst, pos, sub) ==
    LET name == Fields(inst.cls)[pos[1]].name
        value == inst.vals[name]
    IN  [inst EXCEPT !.vals[name] =
            IF value.k = "arr" THEN Arr([value.items EXCEPT ![pos[2]] = sub]) ELSE sub]

\* inst with the submodels at DOMAIN subs replaced
RECURSIVE PutAll(_, _)
PutAll(inst, subs) ==
    IF DOMAIN subs = {} THEN inst
    ELSE LET pos == CHOOSE q \in DOMAIN subs : TRUE
         IN  PutAll(PutAt(inst, pos, subs[pos]),
                    [q \in DOMAIN subs \ {pos} |-> subs[q]])

\* forEachSubmodel(func), given for each submodel whether func's result on it
\* is defined.  visited: the submodels func was called on; result: what
\* forEachField returned.
forEachSubmodel(inst, funcDefined) ==
    LET fs == Fields(inst.cls)
        items(fi) == Items(_getFieldValue(inst, fs[fi].name))
        found(fi) == findFromOneOrMany(
                        [ii \in DOMAIN items(fi) |->
                           IF isModel(items(fi)[ii])
                           THEN IF funcDefined[<<fi, ii>>] THEN "true" ELSE "false"
                           ELSE "undefined"])
        stop == Least({fi \in DOMAIN fs : found(fi).result # "undefined"})
    IN  [visited |-> {pos \in ModelPositions(inst) :
                        /\ stop = 0 \/ pos[1] <= stop
                        /\ found(pos[1]).at = 0 \/ pos[2] <= found(pos[1]).at},
         result |-> IF stop = 0 THEN "undefined" ELSE found(stop).result]

\* submodel.commit() and submodel.rollback() return undefined
ReturnsUndefined(inst) == [pos \in ModelPositions(inst) |-> FALSE]

\* commit()
RECURSIVE commit(_)
commit(inst) ==
    LET cleared == [inst EXCEPT !.hasSaved = FALSE, !.saved = EmptyMap]
        scan == forEachSubmodel(cleared, ReturnsUndefined(cleared))
    IN  PutAll(cleared, [pos \in scan.visited |-> commit(SubAt(cleared, pos))])

\* rollback(); err "TypeError": this._fieldValues is undefined at line 219
RECURSIVE rollback(_)
rollback(inst) ==
    LET restored ==
            IF inst.hasSaved
            THEN [inst EXCEPT
                    !.vals = [n \in DOMAIN inst.vals \cup DOMAIN inst.saved |->
                                IF n \in DOMAIN inst.saved THEN inst.saved[n]
                                ELSE inst.vals[n]],
                    !.hasSaved = FALSE, !.saved = EmptyMap]
            ELSE inst
        scan == forEachSubmodel(restored, ReturnsUndefined(restored))
        subs == [pos \in scan.visited |-> rollback(SubAt(restored, pos))]
        after == PutAll(restored, [pos \in scan.visited |-> subs[pos].obj])
    IN  IF inst.hasSaved /\ ~inst.hasVals /\ DOMAIN inst.saved # {}
        THEN [err |-> "TypeError", obj |-> inst]
        ELSE IF \E pos \in scan.visited : subs[pos].err # "none"
        THEN [err |-> "TypeError", obj |-> after]
        ELSE Done(after)

\* _isChanged(): "true", "false" or "undefined"
RECURSIVE _isChanged(_)
_isChanged(inst) ==
    IF inst.hasSaved THEN "true"
    ELSE forEachSubmodel(inst, [pos \in ModelPositions(inst) |->
                                  _isChanged(SubAt(inst, pos)) # "undefined"]).result

\* isChanged()
isChanged(inst) == _isChanged(inst) = "true"

\* fieldIsChanged(field)
fieldIsChanged(inst, name) ==
    \/ inst.hasSaved /\ name \in DOMAIN inst.saved
    \/ LET value == _getFieldValue(inst, name)
           items == Items(value)
       IN  /\ value # Undef
           /\ findFromOneOrMany(
                 [ii \in DOMAIN items |->
                    IF isModel(items[ii])
                    THEN IF isChanged(items[ii]) THEN "true" ELSE "false"
                    ELSE "undefined"]).result # "undefined"

(***************************************************************************)
(* Reaching the instances below the root: a path is a sequence of places.  *)
(***************************************************************************)
RECURSIVE GetAt(_, _)
GetAt(inst, path) ==
    IF path = <<>> THEN inst ELSE GetAt(SubAt(inst, Head(path)), Tail(path))

RECURSIVE ReplaceAt(_, _, _)
ReplaceAt(inst, path, new) ==
    IF path = <<>> THEN new
    ELSE PutAt(inst, Head(path), ReplaceAt(SubAt(inst, Head(path)), Tail(path), new))

\* The paths of the instance and of every Model value reachable from it
RECURSIVE Paths(_)
Paths(inst) ==
    {<<>>} \cup UNION {{<<pos>> \o p : p \in Paths(SubAt(inst, pos))}
                       : pos \in ModelPositions(inst)}

(***************************************************************************)
(* Inputs and idle values.                                                 *)
(***************************************************************************)
NoResult == [op |-> "none", ok |-> FALSE, m |-> EmptyMask, a0 |-> EmptyMask, b0 |-> EmptyMask]

NoLast == [op |-> "none", err |-> "none", path |-> <<>>, name |-> "none",
           before |-> Undef, obj |-> Undef]

NoOrigin == [mode |-> "none", cls |-> "none", raw |-> Undef]

\* The registry installed on the root class and so inherited by every class
FullRegistry ==
    [c \in Classes |-> IF c = "Model" THEN [own |-> TRUE, names |-> {"P", "Q", "S", "T"}]
                        ELSE [own |-> FALSE, names |-> {}]]

NoRegistry == [c \in Classes |-> [own |-> FALSE, names |-> {}]]

\* The largest number of operations applied to an instance after its construction.
MaxOps == 3

MaskIdle == fa = EmptyMask /\ fb = EmptyMask /\ mres = NoResult
FieldIdle == ownFields = NoFields /\ regLog = {}
ModelIdle ==
    /\ registry = NoRegistry /\ root = Undef /\ origin = NoOrigin
    /\ base = EmptyMap /\ last = NoLast /\ ops = 0

RawT(v) == Raw("T", [n \in {"x"} |-> Num(v)])
RawLeafS(v) == Raw("S", [n \in {"x"} |-> Num(v)])
RawS(v) == Raw("S", [n \in {"x", "t"} |-> IF n = "x" THEN Num(v) ELSE RawT(v)])

\* The inputs of new P(...) and P.deserialize(...)
RootInputs ==
    { Undef,
      Raw("none", [n \in {"x"} |-> Num(1)]),
      Raw("P", [n \in {"x", "num"} |-> Num(1)]),
      Raw("P", [n \in {"x", "f"} |-> IF n = "x" THEN Num(1) ELSE RawLeafS(1)]),
      Raw("P", [n \in {"f"} |-> RawS(1)]),
      Raw("P", [n \in {"f", "g"} |->
                  IF n = "f" THEN RawLeafS(1) ELSE Arr(<<RawLeafS(1), RawLeafS(2)>>)]) }

\* The values assigned to a field
Assignable(field) ==
    IF field.type = "num" THEN {Num(1), Num(2), Bad}
    ELSE IF field.many THEN {Arr(<<Raw("none", [n \in {"x"} |-> Num(2)])>>)}
    ELSE {Raw("none", [n \in {"x"} |-> Num(2)])}

\* The current values of the instance's fields
FieldNamesOf(cls) == {Fields(cls)[i].name : i \in DOMAIN Fields(cls)}

Current(inst) == [n \in FieldNamesOf(inst.cls) |-> _getFieldValue(inst, n)]

(***************************************************************************)
(* FieldMask operations.                                                   *)
(***************************************************************************)
MaskInit ==
    /\ fa \in Masks
    /\ fb \in Masks
    /\ mres = NoResult
    /\ FieldIdle /\ ModelIdle

\* fa.$includes(fb)
Includes ==
    /\ mres.op = "none"
    /\ mres' = [op |-> "includes", ok |-> _includes(fa, fb), m |-> EmptyMask,
                a0 |-> fa, b0 |-> fb]
    /\ UNCHANGED <<fa, fb, fieldVars, modelVars>>

\* FieldMask.$add(fa, fb): _merge writes to the fresh mergedFields only.
Add ==
    /\ mres.op = "none"
    /\ LET r == _merge(fa, fb)
       IN  mres' = [op |-> "add", ok |-> ~r.err, m |-> r.m, a0 |-> fa, b0 |-> fb]
    /\ UNCHANGED <<fa, fb, fieldVars, modelVars>>

MaskNext == Includes \/ Add

SpecMask == MaskInit /\ [][MaskNext]_vars

(***************************************************************************)
(* Field declaration.                                                      *)
(***************************************************************************)
FieldInit ==
    /\ ownFields = NoFields
    /\ regLog = {}
    /\ MaskIdle /\ ModelIdle

\* c.setField(name, ...): a call that throws still leaves the copied registry
SetFieldOk(c, name) ==
    /\ ~setField(ownFields, c, name).err
    /\ ownFields' = setField(ownFields, c, name).of
    /\ regLog' = regLog \cup {<<c, name>>}
    /\ UNCHANGED <<maskVars, modelVars>>

SetFieldThrows(c, name) ==
    /\ setField(ownFields, c, name).err
    /\ ownFields' = setField(ownFields, c, name).of
    /\ UNCHANGED <<regLog, maskVars, modelVars>>

FieldNext ==
    \E c \in {"P", "Q", "S"}, name \in FieldNames :
        SetFieldOk(c, name) \/ SetFieldThrows(c, name)

SpecFields == FieldInit /\ [][FieldNext]_vars

(***************************************************************************)
(* Construction through a type tag.                                        *)
(***************************************************************************)
RegistryNames == {{"P", "Q", "S", "T"}, {"P", "S"}, {"Q"}}

\* $registry installed on the root class, on P, on both or on neither
Registries ==
    {[c \in Classes |-> IF c = "Model" THEN m ELSE IF c = "P" THEN p
                        ELSE [own |-> FALSE, names |-> {}]]
       : m, p \in {[own |-> FALSE, names |-> {}]} \cup
                  {[own |-> TRUE, names |-> ns] : ns \in RegistryNames}}

Tags == {"P", "Q", "S", "T", "Z"}

Payloads == {[n \in {"x"} |-> Num(1)], [n \in {"x", "zz"} |-> Num(2)]}

PolyInit ==
    /\ registry \in Registries
    /\ root = Undef /\ origin = NoOrigin /\ base = EmptyMap /\ last = NoLast /\ ops = 0
    /\ MaskIdle /\ FieldIdle

\* new cls({_type: tag, ...props}, {isDeserializing})
Construct(cls, tag, props, isDeserializing) ==
    /\ origin.mode = "none"
    /\ LET r == construct(cls, Raw(tag, props), isDeserializing)
       IN  /\ last' = [NoLast EXCEPT !.op = "construct", !.err = r.err, !.obj = r.obj]
           /\ origin' = [mode |-> IF isDeserializing THEN "deserialize" ELSE "new",
                         cls |-> cls, raw |-> Raw(tag, props)]
    /\ UNCHANGED <<registry, root, base, ops, maskVars, fieldVars>>

PolyNext ==
    \E cls \in Classes, tag \in Tags, props \in Payloads, isDeserializing \in BOOLEAN :
        Construct(cls, tag, props, isDeserializing)

SpecPoly == PolyInit /\ [][PolyNext]_vars

(***************************************************************************)
(* The life of one instance of P.                                          *)
(***************************************************************************)
ModelInit ==
    /\ registry = FullRegistry
    /\ root = Undef /\ origin = NoOrigin /\ base = EmptyMap /\ last = NoLast /\ ops = 0
    /\ MaskIdle /\ FieldIdle

\* root = new P(raw)
New(raw) ==
    /\ root = Undef
    /\ LET r == construct("P", raw, FALSE)
       IN  /\ r.err = "none"
           /\ root' = r.obj
           /\ base' = [n \in FieldNamesOf("P") |-> Undef]
           /\ last' = [NoLast EXCEPT !.op = "new", !.obj = r.obj]
    /\ origin' = [mode |-> "new", cls |-> "P", raw |-> raw]
    /\ UNCHANGED <<registry, ops, maskVars, fieldVars>>

\* root = P.deserialize(raw)
Deserialize(raw) ==
    /\ root = Undef
    /\ LET r == deserialize("P", raw)
       IN  /\ r.err = "none"
           /\ root' = r.obj
           /\ base' = Current(r.obj)
           /\ last' = [NoLast EXCEPT !.op = "deserialize", !.obj = r.obj]
    /\ origin' = [mode |-> "deserialize", cls |-> "P", raw |-> raw]
    /\ UNCHANGED <<registry, ops, maskVars, fieldVars>>

\* target.name = value, on the root or on a Model value reachable from it
SetField(path, fi, value) ==
    /\ root # Undef /\ ops < MaxOps
    /\ LET target == GetAt(root, path)
           field == Fields(target.cls)[fi]
           r == _setFieldValue(target, field, value, FALSE)
       IN  /\ root' = ReplaceAt(root, path, r.obj)
           /\ last' = [op |-> "set", err |-> r.err, path |-> path, name |-> field.name,
                       before |-> target, obj |-> r.obj]
    /\ ops' = ops + 1
    /\ UNCHANGED <<registry, origin, base, maskVars, fieldVars>>

\* root.commit()
Commit ==
    /\ root # Undef /\ ops < MaxOps
    /\ root' = commit(root)
    /\ base' = Current(root')
    /\ last' = [NoLast EXCEPT !.op = "commit", !.before = root]
    /\ ops' = ops + 1
    /\ UNCHANGED <<registry, origin, maskVars, fieldVars>>

\* root.rollback(); last.obj keeps what x was at the commit or rollback before
Rollback ==
    /\ root # Undef /\ ops < MaxOps
    /\ LET r == rollback(root)
       IN  /\ root' = r.obj
           /\ base' = IF r.err = "none" THEN Current(r.obj) ELSE base
           /\ last' = [NoLast EXCEPT !.op = "rollback", !.err = r.err, !.before = root,
                                       !.obj = base["x"]]
    /\ ops' = ops + 1
    /\ UNCHANGED <<registry, origin, maskVars, fieldVars>>

\* root.clone(): deserialize(serialize())
Clone ==
    /\ root # Undef /\ ops < MaxOps
    /\ LET r == clone(root)
       IN  last' = [NoLast EXCEPT !.op = "clone", !.err = r.err, !.obj = r.obj]
    /\ ops' = ops + 1
    /\ UNCHANGED <<registry, root, origin, base, maskVars, fieldVars>>

ModelNext ==
    \/ \E raw \in RootInputs : New(raw)
    \/ \E raw \in RootInputs : Deserialize(raw)
    \/ /\ root # Undef
       /\ \E path \in Paths(root) :
         \E fi \in DOMAIN Fields(GetAt(root, path).cls) :
           \E value \in Assignable(Fields(GetAt(root, path).cls)[fi]) :
              SetField(path, fi, value)
    \/ Commit
    \/ Rollback
    \/ Clone

SpecModel == ModelInit /\ [][ModelNext]_vars

(***************************************************************************)
(* Properties.                                                             *)
(***************************************************************************)
NoSnapshot(inst) == \A path \in Paths(inst) : ~GetAt(inst, path).hasSaved

\* C1: the snapshot of x is the value x held at the last commit / rollback
\* (here: at deserialization), however many assignments followed, and a
\* rollback restores that value and leaves isChanged() false.
C1_SnapshotKeepsCommittedValue ==
    (root # Undef /\ origin.mode = "deserialize") =>
        /\ (root.hasSaved /\ "x" \in DOMAIN root.saved) => root.saved["x"] = base["x"]
        /\ (last.op = "rollback" /\ last.before.hasSaved /\ "x" \in DOMAIN last.before.saved)
              => /\ last.err = "none"
                 /\ _getFieldValue(root, "x") = last.obj
                 /\ ~isChanged(root)

\* C2: after commit() on the root, isChanged() is false for the root and for
\* every Model value reachable from it.
C2_CommitReachesEverySubmodel ==
    last.op = "commit" => \A path \in Paths(root) : ~isChanged(GetAt(root, path))

\* The part of C2 that does not ask isChanged(): no instance reachable from
\* the committed root still holds a snapshot.
CommitClearsEverySnapshot ==
    last.op = "commit" => NoSnapshot(root)

\* C3: an assignment to a field of a submodel held by the unchanged root makes
\* the root and the holding field changed; with no pending snapshot anywhere
\* neither is changed.
C3_TransitiveChange ==
    root # Undef =>
        /\ \A pos \in ModelPositions(root) :
              (/\ last.op = "set" /\ last.err = "none" /\ last.path = <<pos>>
               /\ ~root.hasSaved)
              => /\ isChanged(root)
                 /\ fieldIsChanged(root, Fields(root.cls)[pos[1]].name)
        /\ NoSnapshot(root)
              => /\ ~isChanged(root)
                 /\ \A n \in FieldNamesOf(root.cls) : ~fieldIsChanged(root, n)

\* The part of C4 that does not ask isChanged(): the copy is of the same
\* class, serializes to the same, holds no snapshot and no default.
RoundTripKeepsData ==
    last.op = "clone" =>
        /\ last.err = "none"
        /\ last.obj.cls = root.cls
        /\ serialize(last.obj) = serialize(root)
        /\ NoSnapshot(last.obj)
        /\ \A n \in FieldNamesOf(root.cls) :
              _getFieldValue(root, n) = Undef => _getFieldValue(last.obj, n) = Undef

\* C4: deserialize(m.serialize()) is of m's type, serializes to the same, is
\* not changed, and received neither a snapshot nor a default.
C4_RoundTrip ==
    /\ RoundTripKeepsData
    /\ last.op = "clone" => ~isChanged(last.obj)

\* What construction through a tag must give: the class the nearest registry
\* of the constructing class names, if that class is the class or extends it.
Holders(cls) == {c \in Ancestors(cls) : registry[c].own}
Nearest(cls) == CHOOSE c \in Holders(cls) : \A d \in Holders(cls) : d \in Ancestors(c)

\* C5: new B({_type: C, ...}) gives an instance of exactly C, populated from
\* the input without the tag, when C is registered and is B or extends B; it
\* fails with TypeMismatch, UnknownType or RegistryMissing otherwise.
C5_TaggedConstruction ==
    last.op = "construct" =>
        LET B == origin.cls
            C == origin.raw.type
            props == origin.raw.props
        IN  IF Holders(B) = {} THEN last.err = "RegistryMissing"
            ELSE IF C \notin registry[Nearest(B)].names THEN last.err = "UnknownType"
            ELSE IF B \notin Ancestors(C) THEN last.err = "TypeMismatch"
            ELSE /\ last.err = "none"
                 /\ last.obj.k = "model"
                 /\ last.obj.cls = C
                 /\ isOfType(last.obj, C) /\ isOfType(last.obj, B)
                 /\ \A c \in Classes : isOfType(last.obj, c) <=> c \in Ancestors(C)
                 /\ _getFieldValue(last.obj, "x") = props["x"]
                 /\ DOMAIN last.obj.vals \subseteq FieldNamesOf(C)

C5_Witness ==
    /\ last.op = "construct" /\ last.err = "none"
    /\ origin.cls = "P" /\ origin.raw.type = "Q"
    /\ last.obj.cls = "Q"
    /\ ~registry["P"].own

\* C6: a field that received its default during new P(...) is not changed,
\* and without any supplied field the instance is not changed.
C6_DefaultsAreNotChanges ==
    (last.op = "new" /\ (origin.raw = Undef \/ "n" \notin DOMAIN origin.raw.props)) =>
        /\ _getFieldValue(root, "n") = Num(0)
        /\ ~fieldIsChanged(root, "n")
        /\ origin.raw = Undef => ~isChanged(root)

\* Every path o selects is selected by r: a leaf of r covers all below it,
\* a name o selects wholly must be selected wholly by r.
Covers(r, o) ==
    \A p \in DOMAIN o :
        \/ \E i \in 1..Len(p) : SubSeq(p, 1, i) \in DOMAIN r /\ r[SubSeq(p, 1, i)] = "T"
        \/ o[p] = "O" /\ p \in DOMAIN r /\ r[p] = "O"

\* C7: r.includes(o) is true exactly when every path o selects is selected by r.
C7_IncludesIffCovers ==
    mres.op = "includes" => (mres.ok <=> Covers(fa, fb))

\* Some path is a leaf in one mask and a nested mapping in the other.
Conflict(a, b) == \E p \in DOMAIN a \cap DOMAIN b : a[p] # b[p]

\* C8: add(a, b) fails exactly on a leaf / nested conflict at some path;
\* otherwise the result includes a and b; a and b are as before the call.
C8_AddIsUnionOrConflict ==
    mres.op = "add" =>
        /\ ~mres.ok <=> Conflict(fa, fb)
        /\ mres.ok => _includes(mres.m, fa) /\ _includes(mres.m, fb)
        /\ mres.ok => Covers(mres.m, fa) /\ Covers(mres.m, fb)
        /\ fa = mres.a0 /\ fb = mres.b0

C8_Witness ==
    /\ mres.op = "add" /\ mres.ok
    /\ mres.m # fa /\ mres.m # fb
    /\ \E p \in DOMAIN fa \cap DOMAIN fb : Len(p) = 2

\* C9: no field name is registered by two successful setField calls on
\* classes of one inheritance chain.
C9_UniqueInChain ==
    \A e1 \in regLog : \A e2 \in regLog :
        (e1[2] = e2[2] /\ e1[1] # e2[1])
            => (e1[1] \notin Ancestors(e2[1]) /\ e2[1] \notin Ancestors(e1[1]))

\* C10: an assignment whose createValue fails leaves the instance as it was,
\* and a rollback() never fails.
C10_FailedAssignmentChangesNothing ==
    /\ (last.op = "set" /\ last.err # "none") =>
          /\ GetAt(root, last.path) = last.before
          /\ isChanged(GetAt(root, last.path)) = isChanged(last.before)
    /\ last.op = "rollback" => last.err = "none"

=============================================================================
